---- MODULE Spec2Model ----
(***************************************************************************)
(* The SpinBox custom element of the elix-book progression, render-centric *)
(* versions 004 (everything inline in render), 005 (renderHelper and       *)
(* componentFirstRender as methods), 006 (renderHelper supplied by         *)
(* ShadowHelperMixin through this.template) and 007 (the mixin reads       *)
(* this[template]).  One element instance, driven by the host page: the    *)
(* custom-element callbacks, writes to the value property, and the user's  *)
(* interactions with the elements of the shadow tree.                      *)
(*                                                                         *)
(* JavaScript values are modelled as records [t, n, s]: a number           *)
(* (t = "num"), NaN (t = "nan") or a string (t = "str", s a sequence of    *)
(* one-character strings).  Strings of the DOM (attribute values, the      *)
(* content of the <input> element) are sequences of one-character strings. *)
(*                                                                         *)
(* Further specifications cover the versions 001-a, 002 and 003            *)
(* (SpecLegacy), a page with any template (SpecPage), the Square sample    *)
(* (SpecSquare), its attributeToPropertyName function (SpecNames) and the  *)
(* script of the life-cycle demo page (SpecDemo).                          *)
(***************************************************************************)
EXTENDS Integers, Sequences, FiniteSets, TLC

\* ------------------------------------------------------------------ bounds
\* longest raw attribute string the host delivers
MaxLen == 2
\* render invocations after which the host delivers no further event
MaxRenders == 4
\* number of leading operations remembered in hist
MaxHist == 2
\* longest attribute name given to attributeToPropertyName
MaxName == 4

\* ------------------------------------------------------- JavaScript values
Num(i) == [t |-> "num", n |-> i, s |-> <<>>]
NaN == [t |-> "nan", n |-> 0, s |-> <<>>]
Str(str) == [t |-> "str", n |-> 0, s |-> str]

\* a !== b is the negation of this
StrictEquals(a, b) == a.t # "nan" /\ b.t # "nan" /\ a = b

DigitChars == <<"0", "1", "2", "3", "4", "5", "6", "7", "8", "9">>
IsDigit(c) == \E d \in 1..10 : DigitChars[d] = c
DigitValue(c) == (CHOOSE d \in 1..10 : DigitChars[d] = c) - 1
IsWhiteSpace(c) == c = " "

RECURSIVE NatToString(_)
NatToString(i) ==
  IF i < 10 THEN <<DigitChars[i + 1]>>
  ELSE Append(NatToString(i \div 10), DigitChars[(i % 10) + 1])

\* the string of a value, as the assignment to input.value applies it
JsToString(v) ==
  CASE v.t = "nan" -> <<"N", "a", "N">>
    [] v.t = "str" -> v.s
    [] OTHER -> IF v.n < 0 THEN <<"-">> \o NatToString(0 - v.n)
                ELSE NatToString(v.n)

\* ToString of the argument of parseInt: null reads "null"
RawToString(raw) == IF raw.isNull THEN <<"n", "u", "l", "l">> ELSE raw.s

RECURSIVE TrimStart(_)
TrimStart(str) ==
  IF str # <<>> /\ IsWhiteSpace(Head(str)) THEN TrimStart(Tail(str)) ELSE str

RECURSIVE DigitPrefix(_)
DigitPrefix(str) ==
  IF str # <<>> /\ IsDigit(Head(str))
  THEN <<Head(str)>> \o DigitPrefix(Tail(str))
  ELSE <<>>

RECURSIVE DigitsToNat(_, _)
DigitsToNat(str, acc) ==
  IF str = <<>> THEN acc
  ELSE DigitsToNat(Tail(str), 10 * acc + DigitValue(Head(str)))

\* parseInt(string) with the default radix: leading white space is
\* skipped, one sign is read, then the longest run of decimal digits;
\* no digit gives NaN.  (-0 and 0 are the same number for !== and ToString.)
parseInt(raw) ==
  LET str == TrimStart(RawToString(raw))
      neg == str # <<>> /\ Head(str) = "-"
      rest == IF str # <<>> /\ Head(str) \in {"-", "+"} THEN Tail(str) ELSE str
      ds == DigitPrefix(rest)
  IN  IF ds = <<>> THEN NaN
      ELSE Num(IF neg THEN 0 - DigitsToNat(ds, 0) ELSE DigitsToNat(ds, 0))

RECURSIVE TrimEnd(_)
TrimEnd(str) ==
  IF str # <<>> /\ IsWhiteSpace(str[Len(str)])
  THEN TrimEnd(SubSeq(str, 1, Len(str) - 1))
  ELSE str

\* ToNumber of a value, as ++ and -- apply it: a string is a number when,
\* white space trimmed, it is empty (0) or an optional sign and decimal
\* digits only; anything else is NaN
ToNumber(v) ==
  IF v.t # "str" THEN v
  ELSE LET str == TrimEnd(TrimStart(v.s))
           neg == str # <<>> /\ Head(str) = "-"
           rest == IF str # <<>> /\ Head(str) \in {"-", "+"} THEN Tail(str)
                   ELSE str
       IN  IF str = <<>> THEN Num(0)
           ELSE IF rest = <<>> \/ DigitPrefix(rest) # rest THEN NaN
           ELSE Num(IF neg THEN 0 - DigitsToNat(rest, 0)
                    ELSE DigitsToNat(rest, 0))

\* value + 1 and value - 1 of the ++ and -- operators
PlusOne(v) == IF ToNumber(v).t = "num" THEN Num(ToNumber(v).n + 1) ELSE NaN
MinusOne(v) == IF ToNumber(v).t = "num" THEN Num(ToNumber(v).n - 1) ELSE NaN

\* ------------------------------------------------------------- the element
Versions == {"004", "005", "006", "007"}
ElementIds == {"input", "upButton", "downButton"}

\* the state of one element after its constructor has run
constructor ==
  [ value      |-> Num(0),   \* this._value
    shadowRoot |-> 0,        \* this.shadowRoot: 0 is null, else the root's id
    stamped    |-> FALSE,    \* the root holds a copy of the template content
    ids        |-> {},       \* ids of the elements the root holds
    display    |-> <<>>,     \* content of the <input> element of the root
    listeners  |-> [e \in ElementIds |-> 0],  \* listeners added per element
    attachCalls |-> 0,       \* invocations of attachShadow
    firstRenderCalls |-> 0,  \* executions of the one-time wiring code
    renderCalls |-> 0,       \* invocations of render
    projections |-> 0,       \* executions of the last statement of render
    log        |-> <<>>,     \* steps of the entry point running or last run
    err        |-> "none" ]  \* exception that ended that entry point

Throw(s, e) == [s EXCEPT !.err = e]
Step(s, name) == [s EXCEPT !.log = Append(@, name)]

\* this.attachShadow({ mode: 'open' }): a host has at most one shadow root
attachShadow(s) ==
  IF s.err # "none" THEN s
  ELSE LET t == Step([s EXCEPT !.attachCalls = @ + 1], "attachShadow")
       IN  IF s.shadowRoot # 0 THEN Throw(t, "NotSupportedError")
           ELSE [t EXCEPT !.shadowRoot = t.attachCalls]

\* document.importNode(templateElement.content, true); root.appendChild(clone)
\* tpl is the result of document.getElementById('spinBoxTemplate'): whether
\* the page has the template, and the ids of the elements of its content
stampTemplate(s, tpl) ==
  IF s.err # "none" THEN s
  ELSE IF ~tpl.present THEN Throw(Step(s, "importNode"), "TypeError")
  ELSE [Step(s, "appendChild") EXCEPT !.stamped = TRUE, !.ids = tpl.ids,
                                      !.display = <<>>]

ListenStep == [input |-> "addEventListener:input",
               upButton |-> "addEventListener:upButton",
               downButton |-> "addEventListener:downButton"]

\* root.getElementById(id).addEventListener(type, listener)
addEventListener(s, id) ==
  IF s.err # "none" THEN s
  ELSE IF s.shadowRoot = 0 \/ id \notin s.ids
       THEN Throw(Step(s, "addEventListener:null"), "TypeError")
  ELSE [Step(s, ListenStep[id]) EXCEPT !.listeners[id] = @ + 1]

\* project with the value written through "|| ''": 0 displays as nothing
project_FalsyZero(s) ==
  IF s.err # "none" THEN s
  ELSE IF s.shadowRoot = 0 THEN Throw(Step(s, "project:noRoot"), "TypeError")
  ELSE IF "input" \notin s.ids
       THEN Throw(Step(s, "project:noInput"), "TypeError")
  ELSE [Step(s, "project") EXCEPT
          !.display = IF s.value = Num(0) THEN <<>> ELSE JsToString(s.value),
          !.projections = @ + 1]

\* this.shadowRoot.getElementById('input').value = this.value
project(s) ==
  IF s.err # "none" THEN s
  ELSE IF s.shadowRoot = 0 THEN Throw(Step(s, "project:noRoot"), "TypeError")
  ELSE IF "input" \notin s.ids
       THEN Throw(Step(s, "project:noInput"), "TypeError")
  ELSE [Step(s, "project") EXCEPT !.display = JsToString(s.value),
                                  !.projections = @ + 1]

\* --------------------------------------------------------------- 004
\* render004 without the first-render section (the render of version 003)
render004_NoFirstRender(s, tpl) ==
  project(Step([s EXCEPT !.renderCalls = @ + 1], "render"))

\* render with the shadow tree creation and the wiring inline
render004(s, tpl) ==
  LET s0 == Step([s EXCEPT !.renderCalls = @ + 1], "render")
      firstRender == s0.shadowRoot = 0
      s1 == stampTemplate(attachShadow(s0), tpl)
      s2 == IF s1.err # "none" THEN s1
            ELSE Step([s1 EXCEPT !.firstRenderCalls = @ + 1], "firstRender")
      s3 == addEventListener(addEventListener(addEventListener(s2,
               "input"), "upButton"), "downButton")
  IN  project(IF firstRender THEN s3 ELSE s0)

\* --------------------------------------------------------------- 005
\* renderHelper005 ending in "return true"
renderHelper005_ReturnsTrue(s, tpl) ==
  LET s0 == Step(s, "renderHelper")
  IN  [st |-> IF s0.shadowRoot = 0 THEN stampTemplate(attachShadow(s0), tpl)
              ELSE s0,
       firstRender |-> TRUE]

renderHelper005(s, tpl) ==
  LET s0 == Step(s, "renderHelper")
      firstRender == s0.shadowRoot = 0
  IN  [st |-> IF firstRender THEN stampTemplate(attachShadow(s0), tpl) ELSE s0,
       firstRender |-> firstRender]

componentFirstRender005(s) ==
  LET s0 == Step([s EXCEPT !.firstRenderCalls = @ + 1], "firstRender")
  IN  addEventListener(addEventListener(addEventListener(s0,
         "input"), "upButton"), "downButton")

\* render005 writing the value into the input element before it wires
render005_ProjectFirst(s, tpl) ==
  LET s0 == Step([s EXCEPT !.renderCalls = @ + 1], "render")
      r == renderHelper005(s0, tpl)
  IN  IF r.st.err # "none" THEN r.st
      ELSE IF r.firstRender THEN componentFirstRender005(project(r.st))
      ELSE project(r.st)

render005(s, tpl) ==
  LET s0 == Step([s EXCEPT !.renderCalls = @ + 1], "render")
      r == renderHelper005(s0, tpl)
  IN  IF r.st.err # "none" THEN r.st
      ELSE project(IF r.firstRender THEN componentFirstRender005(r.st)
                   ELSE r.st)

\* --------------------------------------------------------------- 006
\* renderHelper006 computing firstRender after the root was attached
renderHelper006_ReturnsStale(s, tpl) ==
  LET s0 == Step(s, "renderHelper")
      s1 == IF s0.shadowRoot = 0 THEN stampTemplate(attachShadow(s0), tpl)
            ELSE s0
  IN  [st |-> s1, firstRender |-> s1.shadowRoot = 0]

\* renderHelper006 without the test of this.shadowRoot
renderHelper006_NoGuard(s, tpl) ==
  [st |-> stampTemplate(attachShadow(Step(s, "renderHelper")), tpl),
   firstRender |-> TRUE]

\* ShadowHelperMixin: renderHelper reads this.template
renderHelper006(s, tpl) ==
  LET s0 == Step(s, "renderHelper")
      firstRender == s0.shadowRoot = 0
  IN  [st |-> IF firstRender THEN stampTemplate(attachShadow(s0), tpl) ELSE s0,
       firstRender |-> firstRender]

componentFirstRender006(s) ==
  LET s0 == Step([s EXCEPT !.firstRenderCalls = @ + 1], "firstRender")
  IN  addEventListener(addEventListener(addEventListener(s0,
         "input"), "upButton"), "downButton")

\* render006 whose first-render section calls render again (as a write
\* to this.value from componentFirstRender would)
render006_NestedRender(s, tpl) ==
  LET s0 == Step([s EXCEPT !.renderCalls = @ + 1], "render")
      r == renderHelper006(s0, tpl)
  IN  IF r.st.err # "none" THEN r.st
      ELSE project(IF r.firstRender
                   THEN render005(componentFirstRender006(r.st), tpl)
                   ELSE r.st)

\* render006 calling componentFirstRender on every render
render006_AlwaysWire(s, tpl) ==
  LET s0 == Step([s EXCEPT !.renderCalls = @ + 1], "render")
      r == renderHelper006(s0, tpl)
  IN  IF r.st.err # "none" THEN r.st
      ELSE project(componentFirstRender006(r.st))

render006(s, tpl) ==
  LET s0 == Step([s EXCEPT !.renderCalls = @ + 1], "render")
      r == renderHelper006(s0, tpl)
  IN  IF r.st.err # "none" THEN r.st
      ELSE project(IF r.firstRender THEN componentFirstRender006(r.st)
                   ELSE r.st)

\* --------------------------------------------------------------- 007
\* renderHelper007 also writing the value into the new input element
renderHelper007_Projects(s, tpl) ==
  LET s0 == Step(s, "renderHelper")
      firstRender == s0.shadowRoot = 0
  IN  [st |-> IF firstRender
              THEN project(stampTemplate(attachShadow(s0), tpl))
              ELSE s0,
       firstRender |-> firstRender]

\* ShadowHelperMixin: renderHelper reads this[template]
renderHelper007(s, tpl) ==
  LET s0 == Step(s, "renderHelper")
      firstRender == s0.shadowRoot = 0
  IN  [st |-> IF firstRender THEN stampTemplate(attachShadow(s0), tpl) ELSE s0,
       firstRender |-> firstRender]

\* componentFirstRender007 without the listener of the down button
componentFirstRender007_NoDown(s) ==
  LET s0 == Step([s EXCEPT !.firstRenderCalls = @ + 1], "firstRender")
  IN  addEventListener(addEventListener(s0, "input"), "upButton")

componentFirstRender007(s) ==
  LET s0 == Step([s EXCEPT !.firstRenderCalls = @ + 1], "firstRender")
  IN  addEventListener(addEventListener(addEventListener(s0,
         "input"), "upButton"), "downButton")

render007(s, tpl) ==
  LET s0 == Step([s EXCEPT !.renderCalls = @ + 1], "render")
      r == renderHelper007(s0, tpl)
  IN  IF r.st.err # "none" THEN r.st
      ELSE project(IF r.firstRender THEN componentFirstRender007(r.st)
                   ELSE r.st)

\* ------------------------------------------------- 001-a, 002 and 003
\* the versions that build the shadow tree in connectedCallback
LegacyVersions == {"001a", "002", "003"}

render001a(s, tpl) == project(Step([s EXCEPT !.renderCalls = @ + 1], "render"))

render002(s, tpl) == project(Step([s EXCEPT !.renderCalls = @ + 1], "render"))

render003(s, tpl) == project(Step([s EXCEPT !.renderCalls = @ + 1], "render"))

\* the render method of the class of version ver
render(ver, s, tpl) ==
  CASE ver = "001a" -> render001a(s, tpl)
    [] ver = "002" -> render002(s, tpl)
    [] ver = "003" -> render003(s, tpl)
    [] ver = "004" -> render004(s, tpl)
    [] ver = "005" -> render005(s, tpl)
    [] ver = "006" -> render006(s, tpl)
    [] OTHER -> render007(s, tpl)

\* get value()
getValue(s) == s.value

\* setValue rendering before it stores
setValue_RenderFirst(ver, s, tpl, v) ==
  IF s.err # "none" THEN s
  ELSE IF ~StrictEquals(v, s.value)
       THEN LET r == render(ver, s, tpl)
            IN  Step([r EXCEPT !.value = v], "store")
  ELSE s

\* set value(value): store and render when the value changed
setValue(ver, s, tpl, v) ==
  IF s.err # "none" THEN s
  ELSE IF ~StrictEquals(v, s.value)
       THEN render(ver, Step([s EXCEPT !.value = v], "store"), tpl)
  ELSE s

\* document.createElement(...) and element.addEventListener(type, listener)
\* on an element that is not yet in the shadow root
listenCreated(s, id) ==
  IF s.err # "none" THEN s
  ELSE [Step(s, ListenStep[id]) EXCEPT !.listeners[id] = @ + 1]

\* root.appendChild(inputElem); root.appendChild(upButton);
\* root.appendChild(downButton)
appendCreated(s) ==
  IF s.err # "none" THEN s
  ELSE [Step(s, "appendChild") EXCEPT !.ids = ElementIds, !.display = <<>>]

\* the wiring section of a connectedCallback starts
startWiring(s) ==
  IF s.err # "none" THEN s ELSE [s EXCEPT !.firstRenderCalls = @ + 1]

connectedCallback001a(s, tpl) ==
  LET s1 == startWiring(attachShadow(s))
      s2 == listenCreated(listenCreated(listenCreated(s1,
               "input"), "upButton"), "downButton")
      s3 == appendCreated(s2)
  IN  IF s3.err # "none" THEN s3 ELSE render001a(s3, tpl)

connectedCallback002(s, tpl) ==
  LET s1 == startWiring(attachShadow(s))
      s2 == listenCreated(listenCreated(listenCreated(s1,
               "input"), "upButton"), "downButton")
      s3 == appendCreated(s2)
  IN  IF s3.err # "none" THEN s3 ELSE render002(s3, tpl)

connectedCallback003(s, tpl) ==
  LET s1 == startWiring(stampTemplate(attachShadow(s), tpl))
      s2 == addEventListener(addEventListener(addEventListener(s1,
               "input"), "upButton"), "downButton")
  IN  IF s2.err # "none" THEN s2 ELSE render003(s2, tpl)

\* the connectedCallback method of the class of version ver
connectedCallbackBody(ver, s, tpl) ==
  CASE ver = "001a" -> connectedCallback001a(s, tpl)
    [] ver = "002" -> connectedCallback002(s, tpl)
    [] ver = "003" -> connectedCallback003(s, tpl)
    [] OTHER -> render(ver, s, tpl)

\* attributeChangedCallback of 001-a: no setter, and a test of oldValue
attributeChangedCallback001a(s, tpl, name, oldRaw, raw) ==
  IF name = "value" /\ oldRaw # raw
  THEN render001a(Step([s EXCEPT !.value = parseInt(raw)], "store"), tpl)
  ELSE s

\* ------------------------------------------------------------ the host page
Alphabet == {"7", "a"}
RECURSIVE StringsUpTo(_)
StringsUpTo(k) ==
  IF k = 0 THEN {<<>>}
  ELSE LET shorter == StringsUpTo(k - 1)
       IN  shorter \cup {Append(str, c) : str \in shorter, c \in Alphabet}

Null == [isNull |-> TRUE, s |-> <<>>]
\* the newValue arguments of attributeChangedCallback: a string, or null
\* when the attribute was removed
RawValues ==
  {[isNull |-> FALSE, s |-> str] :
      str \in StringsUpTo(MaxLen) \cup {<<"0">>, <<"-", "7">>, <<" ", "7">>}}
    \cup {Null}
AttributeNames == {"value", "min"}
\* integers the page script assigns to the value property
WrittenValues == {Num(0), Num(1), Num(7)}
\* what the user leaves in the <input> element after an edit
TypedTexts == {<<"7">>, <<"7", "a">>, <<>>}

VARIABLES
  version,          \* which SpinBox.js of the progression the page loads
  templatePresent,  \* document.getElementById('spinBoxTemplate') is not null
  templateIds,      \* ids of the elements of the template's content
  el,               \* the spin-box element
  connected,        \* the element is in the document
  op,               \* the entry point that ran last, with the value it carried
  hist              \* the entry points run so far, while at most MaxHist

vars == <<version, templatePresent, templateIds, el, connected, op, hist>>

\* document.getElementById('spinBoxTemplate')
Template == [present |-> templatePresent, ids |-> templateIds]

\* kind: the entry point; name: the attribute name of attributeChangedCallback;
\* val: the value handed to the setter (parseInt of the raw attribute value,
\* the written value) or the text the user typed
Op(kind, name, val) == [kind |-> kind, name |-> name, val |-> val]
NoOp == Op("none", "", NaN)
MoreOp == Op("more", "", NaN)

Init ==
  /\ version \in Versions
  /\ templatePresent = TRUE
  /\ templateIds = ElementIds
  /\ el = constructor
  /\ connected = FALSE
  /\ op = NoOp
  /\ hist = <<>>

\* an entry point starts with an empty step log and no pending exception
Begin(s) == [s EXCEPT !.log = <<>>, !.err = "none"]

\* the record of one more entry point
Record(o) ==
  /\ op' = o
  /\ hist' = IF hist # <<MoreOp>> /\ Len(hist) < MaxHist THEN Append(hist, o)
             ELSE <<MoreOp>>

Enabled == el.renderCalls < MaxRenders /\ el.attachCalls < MaxRenders

connectedCallback ==
  /\ Enabled
  /\ el' = connectedCallbackBody(version, Begin(el), Template)
  /\ connected' = TRUE
  /\ Record(Op("connected", "", NaN))
  /\ UNCHANGED <<version, templatePresent, templateIds>>

\* disconnectedCallback discarding the shadow root
disconnectedCallback_DropsRoot ==
  /\ Enabled
  /\ connected
  /\ el' = [Begin(el) EXCEPT !.shadowRoot = 0]
  /\ connected' = FALSE
  /\ Record(Op("disconnected", "", NaN))
  /\ UNCHANGED <<version, templatePresent, templateIds>>

disconnectedCallback ==
  /\ Enabled
  /\ connected
  /\ el' = Begin(el)
  /\ connected' = FALSE
  /\ Record(Op("disconnected", "", NaN))
  /\ UNCHANGED <<version, templatePresent, templateIds>>

adoptedCallback ==
  /\ Enabled
  /\ el' = Begin(el)
  /\ Record(Op("adopted", "", NaN))
  /\ UNCHANGED <<version, templatePresent, templateIds, connected>>

\* attributeChangedCallback without the test of the attribute name
attributeChangedCallbackBody_AnyName(s, ver, tpl, name, raw) ==
  setValue(ver, s, tpl, parseInt(raw))

\* attributeChangedCallback assigning this._value without the setter
attributeChangedCallbackBody_NoSetter(s, ver, tpl, name, raw) ==
  IF name = "value" THEN Step([s EXCEPT !.value = parseInt(raw)], "store")
  ELSE s

attributeChangedCallbackBody(s, ver, tpl, name, raw) ==
  IF name = "value" THEN setValue(ver, s, tpl, parseInt(raw)) ELSE s

attributeChangedCallback ==
  /\ Enabled
  /\ \E name \in AttributeNames, raw \in RawValues :
       /\ el' = attributeChangedCallbackBody(Begin(el), version,
                                             Template, name, raw)
       /\ Record(Op("attribute", name, parseInt(raw)))
  /\ UNCHANGED <<version, templatePresent, templateIds, connected>>

\* element.value = v in the page's script
WriteValue ==
  /\ Enabled
  /\ \E v \in WrittenValues :
       /\ el' = setValue(version, Begin(el), Template, v)
       /\ Record(Op("write", "", v))
  /\ UNCHANGED <<version, templatePresent, templateIds, connected>>

\* a read of element.value that renders before it returns
ReadValue_Renders ==
  /\ Enabled
  /\ el' = render(version, Begin(el), Template)
  /\ Record(Op("read", "", getValue(el)))
  /\ UNCHANGED <<version, templatePresent, templateIds, connected>>

\* a read of element.value in the page's script
ReadValue ==
  /\ Enabled
  /\ el' = Begin(el)
  /\ Record(Op("read", "", getValue(el)))
  /\ UNCHANGED <<version, templatePresent, templateIds, connected>>

\* the listener bodies; an exception of a listener is reported and does
\* not stop the listeners after it
\* 001-a: this._value++; this.render()   others: this.value++
upListener(s, ver, tpl) ==
  IF ver = "001a"
  THEN render001a(Step([s EXCEPT !.value = PlusOne(s.value)], "store"), tpl)
  ELSE setValue(ver, s, tpl, PlusOne(getValue(s)))

\* 001-a: this._value--; this.render()   others: this.value--
downListener(s, ver, tpl) ==
  IF ver = "001a"
  THEN render001a(Step([s EXCEPT !.value = MinusOne(s.value)], "store"), tpl)
  ELSE setValue(ver, s, tpl, MinusOne(getValue(s)))

\* 001-a: this._value = inputElem.value; this.render()
\* 002: this.value = inputElem.value, inputElem a constant of connectedCallback
\* 003 to 007: this.value = inputElem.value, where no inputElem is in scope
inputListener(s, ver, tpl) ==
  CASE ver = "001a" ->
         render001a([Step(Step(s, "inputListener"), "store")
                       EXCEPT !.value = Str(s.display)], tpl)
    [] ver = "002" -> setValue(ver, Step(s, "inputListener"), tpl, Str(s.display))
    [] OTHER -> Throw(Step(s, "inputListener"), "ReferenceError")

Listener(id, s, ver, tpl) ==
  CASE id = "upButton" -> upListener(s, ver, tpl)
    [] id = "downButton" -> downListener(s, ver, tpl)
    [] OTHER -> inputListener(s, ver, tpl)

\* dispatch of one event to the listeners added to element id, in order
RECURSIVE Dispatch(_, _, _, _, _)
Dispatch(k, id, s, ver, tpl) ==
  IF k = 0 THEN s
  ELSE LET before == Dispatch(k - 1, id, s, ver, tpl)
           after == Listener(id, [before EXCEPT !.err = "none"], ver, tpl)
       IN  IF after.err = "none" THEN [after EXCEPT !.err = before.err]
           ELSE after

\* mousedown on the up button
PressUp ==
  /\ Enabled
  /\ "upButton" \in el.ids
  /\ el' = Dispatch(el.listeners["upButton"], "upButton", Begin(el),
                    version, Template)
  /\ Record(Op("up", "", NaN))
  /\ UNCHANGED <<version, templatePresent, templateIds, connected>>

\* mousedown on the down button
PressDown ==
  /\ Enabled
  /\ "downButton" \in el.ids
  /\ el' = Dispatch(el.listeners["downButton"], "downButton", Begin(el),
                    version, Template)
  /\ Record(Op("down", "", NaN))
  /\ UNCHANGED <<version, templatePresent, templateIds, connected>>

\* the user edits the <input> element: its content changes, then the
\* input event is dispatched
TextInput ==
  /\ Enabled
  /\ "input" \in el.ids
  /\ \E text \in TypedTexts :
       /\ text # el.display
       /\ el' = Dispatch(el.listeners["input"], "input",
                         [Begin(el) EXCEPT !.display = text],
                         version, Template)
       /\ Record(Op("text", "", Str(text)))
  /\ UNCHANGED <<version, templatePresent, templateIds, connected>>

Next ==
  \/ connectedCallback
  \/ disconnectedCallback
  \/ adoptedCallback
  \/ attributeChangedCallback
  \/ WriteValue
  \/ ReadValue
  \/ PressUp
  \/ PressDown
  \/ TextInput

Spec == Init /\ [][Next]_vars

\* the element of the versions 001-a, 002 and 003
InitLegacy ==
  /\ version \in LegacyVersions
  /\ templatePresent = TRUE
  /\ templateIds = ElementIds
  /\ el = constructor
  /\ connected = FALSE
  /\ op = NoOp
  /\ hist = <<>>

\* oldValue is the value the attribute had: the new one again, or another
attributeChangedCallbackLegacy ==
  /\ Enabled
  /\ \E name \in AttributeNames, raw \in RawValues :
       \E oldRaw \in {raw, Null} :
         /\ el' = IF version = "001a"
                  THEN attributeChangedCallback001a(Begin(el), Template,
                                                    name, oldRaw, raw)
                  ELSE attributeChangedCallbackBody(Begin(el), version,
                                                    Template, name, raw)
         /\ Record(Op("attribute", name, parseInt(raw)))
  /\ UNCHANGED <<version, templatePresent, templateIds, connected>>

\* 001-a has no value property
WriteValueLegacy ==
  /\ version # "001a"
  /\ WriteValue

NextLegacy ==
  \/ connectedCallback
  \/ disconnectedCallback
  \/ adoptedCallback
  \/ attributeChangedCallbackLegacy
  \/ WriteValueLegacy
  \/ PressUp
  \/ PressDown
  \/ TextInput

SpecLegacy == InitLegacy /\ [][NextLegacy]_vars

\* pages whose template differs from the one of the book: without the
\* input element, without the down button, or with no template at all
TemplateChoices ==
  { [present |-> TRUE, ids |-> ElementIds],
    [present |-> TRUE, ids |-> ElementIds \ {"input"}],
    [present |-> TRUE, ids |-> ElementIds \ {"downButton"}],
    [present |-> FALSE, ids |-> {}] }

InitPage ==
  /\ version \in Versions
  /\ \E c \in TemplateChoices :
       /\ templatePresent = c.present
       /\ templateIds = c.ids
  /\ el = constructor
  /\ connected = FALSE
  /\ op = NoOp
  /\ hist = <<>>

SpecPage == InitPage /\ [][Next]_vars

\* ------------------------------------------------- the Square sample
LowerChars == <<"a", "b", "c", "d", "e", "f", "g", "h", "i", "j", "k", "l",
                "m", "n", "o", "p", "q", "r", "s", "t", "u", "v", "w", "x",
                "y", "z">>
UpperChars == <<"A", "B", "C", "D", "E", "F", "G", "H", "I", "J", "K", "L",
                "M", "N", "O", "P", "Q", "R", "S", "T", "U", "V", "W", "X",
                "Y", "Z">>
\* the character class [a-z]
IsLower(c) == \E i \in 1..26 : LowerChars[i] = c
\* String.prototype.toUpperCase on one character
toUpperCase(c) ==
  IF IsLower(c) THEN UpperChars[CHOOSE i \in 1..26 : LowerChars[i] = c] ELSE c

\* attributeToPropertyName replacing the match by its two characters in
\* upper case (match.toUpperCase() instead of match[1].toUpperCase())
RECURSIVE attributeToPropertyName_KeepsHyphen(_)
attributeToPropertyName_KeepsHyphen(attributeName) ==
  IF attributeName = <<>> THEN <<>>
  ELSE IF Len(attributeName) >= 2 /\ attributeName[1] = "-"
            /\ IsLower(attributeName[2])
       THEN <<"-", toUpperCase(attributeName[2])>>
              \o attributeToPropertyName_KeepsHyphen(
                   SubSeq(attributeName, 3, Len(attributeName)))
  ELSE <<Head(attributeName)>>
         \o attributeToPropertyName_KeepsHyphen(Tail(attributeName))

\* attributeName.replace(/-([a-z])/g, (match) => match[1].toUpperCase()):
\* the matches are found from left to right and do not overlap
RECURSIVE attributeToPropertyName(_)
attributeToPropertyName(attributeName) ==
  IF attributeName = <<>> THEN <<>>
  ELSE IF Len(attributeName) >= 2 /\ attributeName[1] = "-"
            /\ IsLower(attributeName[2])
       THEN <<toUpperCase(attributeName[2])>>
              \o attributeToPropertyName(
                   SubSeq(attributeName, 3, Len(attributeName)))
  ELSE <<Head(attributeName)>> \o attributeToPropertyName(Tail(attributeName))

\* static get observedAttributes()
SquareColorAttribute ==
  <<"s", "q", "u", "a", "r", "e", "-", "c", "o", "l", "o", "r">>
SquareSizeAttribute ==
  <<"s", "q", "u", "a", "r", "e", "-", "s", "i", "z", "e">>
observedAttributes == {SquareColorAttribute, SquareSizeAttribute}
\* the names of the two property setters of the class
SquareSizeProperty == <<"s", "q", "u", "a", "r", "e", "S", "i", "z", "e">>
SquareColorProperty ==
  <<"s", "q", "u", "a", "r", "e", "C", "o", "l", "o", "r">>

JsNull == [t |-> "null", n |-> 0, s |-> <<>>]
\* the newValue argument as a JavaScript value
RawToValue(raw) == IF raw.isNull THEN JsNull ELSE Str(raw.s)
\* `${v}` of a template literal
TemplateLiteral(v) ==
  IF v.t = "null" THEN <<"n", "u", "l", "l">> ELSE JsToString(v)

Blue == <<"#", "0", "0", "0", "0", "f", "f">>
Red == <<"r", "e", "d">>
\* the colours of the model that CSS accepts
CssColors == {Blue, Red}
IsCssColor(text) == text \in CssColors
\* a CSS length of the form <digits>px
IsCssLength(text) ==
  /\ Len(text) >= 3
  /\ SubSeq(text, Len(text) - 1, Len(text)) = <<"p", "x">>
  /\ \A i \in 1..(Len(text) - 2) : IsDigit(text[i])

\* element.style.prop = text: the empty string removes the declaration, a
\* text that CSS does not accept for the property is ignored
setStyle(old, text, valid) ==
  IF text = <<>> THEN <<>> ELSE IF valid THEN text ELSE old

\* the state of a Square after its constructor has run
SquareConstructor ==
  [ squareSize  |-> Num(100),     \* this._squareSize
    squareColor |-> Str(Blue),    \* this._squareColor
    shadowRoot  |-> 1,            \* attached in the constructor
    \* the <style> element of templateString, stamped into the root
    sheet |-> [width |-> TemplateLiteral(Num(100)) \o <<"p", "x">>,
               height |-> TemplateLiteral(Num(100)) \o <<"p", "x">>,
               backgroundColor |-> TemplateLiteral(Str(Blue))],
    \* the style attribute of the element with id 'square'
    style |-> [width |-> <<>>, height |-> <<>>, backgroundColor |-> <<>>],
    expandos |-> {},              \* names of properties created by assignment
    renderCalls |-> 0,
    log |-> <<>>,
    err |-> "none" ]

\* render() of Square
renderSquare(s) ==
  LET s0 == Step([s EXCEPT !.renderCalls = @ + 1], "render")
      size == TemplateLiteral(s0.squareSize) \o <<"p", "x">>
      color == TemplateLiteral(s0.squareColor)
  IN  IF s0.shadowRoot = 0 THEN Throw(s0, "TypeError")
      ELSE [s0 EXCEPT
              !.style.width = setStyle(@, size, IsCssLength(size)),
              !.style.height = setStyle(@, size, IsCssLength(size)),
              !.style.backgroundColor = setStyle(@, color, IsCssColor(color))]

\* set squareSize(squareSize)
setSquareSize(s, v) == renderSquare(Step([s EXCEPT !.squareSize = v], "store"))
\* set squareColor(squareColor)
setSquareColor(s, v) ==
  renderSquare(Step([s EXCEPT !.squareColor = v], "store"))

\* attributeChangedCallback(name, oldValue, newValue) of Square:
\* this[propertyName] = newValue
attributeChangedCallbackSquare(s, name, raw) ==
  LET propertyName == attributeToPropertyName(name)
  IN  CASE propertyName = SquareSizeProperty ->
             setSquareSize(s, RawToValue(raw))
        [] propertyName = SquareColorProperty ->
             setSquareColor(s, RawToValue(raw))
        [] OTHER -> [s EXCEPT !.expandos = @ \cup {propertyName}]

\* what the element with id 'square' shows: the style attribute wins over
\* the style sheet
Rendered(s) ==
  [p \in {"width", "height", "backgroundColor"} |->
     IF s.style[p] # <<>> THEN s.style[p] ELSE s.sheet[p]]

\* attribute values the page gives a square
SquareRawValues ==
  {[isNull |-> FALSE, s |-> str] :
      str \in {<<"5">>, <<"5", "0">>, <<"a">>, Red, <<>>}} \cup {Null}

InitSquare ==
  /\ version = "square"
  /\ templatePresent = TRUE
  /\ templateIds = {"square"}
  /\ el = SquareConstructor
  /\ connected = FALSE
  /\ op = NoOp
  /\ hist = <<>>

EnabledSquare == el.renderCalls < MaxRenders

connectedCallbackSquare ==
  /\ EnabledSquare
  /\ ~connected
  /\ el' = renderSquare(Begin(el))
  /\ connected' = TRUE
  /\ Record(Op("connected", "", NaN))
  /\ UNCHANGED <<version, templatePresent, templateIds>>

disconnectedCallbackSquare ==
  /\ EnabledSquare
  /\ connected
  /\ el' = Begin(el)
  /\ connected' = FALSE
  /\ Record(Op("disconnected", "", NaN))
  /\ UNCHANGED <<version, templatePresent, templateIds>>

\* setAttribute / removeAttribute of an observed attribute
attributeChangedSquare ==
  /\ EnabledSquare
  /\ \E name \in observedAttributes, raw \in SquareRawValues :
       /\ el' = attributeChangedCallbackSquare(Begin(el), name, raw)
       /\ Record(Op("attribute", attributeToPropertyName(name),
                    RawToValue(raw)))
  /\ UNCHANGED <<version, templatePresent, templateIds, connected>>

NextSquare ==
  \/ connectedCallbackSquare
  \/ disconnectedCallbackSquare
  \/ attributeChangedSquare

SpecSquare == InitSquare /\ [][NextSquare]_vars

\* attributeToPropertyName on its own: names over a hyphen, a lower-case
\* letter and a character that is neither
NameAlphabet == {"-", "a", "Z"}
RECURSIVE NamesUpTo(_)
NamesUpTo(k) ==
  IF k = 0 THEN {<<>>}
  ELSE LET shorter == NamesUpTo(k - 1)
       IN  shorter \cup {Append(str, c) : str \in shorter, c \in NameAlphabet}
NameInputs == NamesUpTo(MaxName) \cup observedAttributes

InitNames ==
  /\ version = "square"
  /\ templatePresent = TRUE
  /\ templateIds = {"square"}
  /\ \E name \in NameInputs :
       el = [attributeName |-> name, propertyName |-> <<>>, returned |-> FALSE]
  /\ connected = FALSE
  /\ op = NoOp
  /\ hist = <<>>

\* const propertyName = attributeToPropertyName(name)
CallAttributeToPropertyName ==
  /\ ~el.returned
  /\ el' = [el EXCEPT !.propertyName = attributeToPropertyName(el.attributeName),
                      !.returned = TRUE]
  /\ UNCHANGED <<version, templatePresent, templateIds, connected, op, hist>>

NextNames == CallAttributeToPropertyName

SpecNames == InitNames /\ [][NextNames]_vars

\* -------------------------------------- the life-cycle demo page script
\* squares the add button may create before the user stops
MaxSquares == 3
\* results of random(50, 200) and of random(0, 255) the model draws
RandomSizes == {50, 200}
RandomChannels == {0, 255}

\* `rgb(${r}, ${g}, ${b})`
RgbString(r, g, b) ==
  <<"r", "g", "b", "(">> \o NatToString(r) \o <<",", " ">> \o NatToString(g)
    \o <<",", " ">> \o NatToString(b) \o <<")">>

\* the page after the top-level statements of the script have run: the
\* page's markup holds one custom-square (square 1) in the body
DemoPage ==
  [ addDisabled    |-> TRUE,      \* add.disabled = true
    updateDisabled |-> FALSE,     \* update.disabled = false
    removeDisabled |-> FALSE,     \* remove.disabled = false
    square  |-> 1,                \* let square = querySelector('custom-square')
    body    |-> {1},              \* the squares that are children of the body
    created |-> 0,                \* squares made by document.createElement
    size    |-> <<>>,             \* square-size attribute of square
    color   |-> <<>>,             \* square-color attribute of square
    log     |-> <<>>,
    err     |-> "none" ]

\* square.setAttribute(name, value)
setAttributeStep(s) ==
  IF s.err # "none" THEN s
  ELSE Step(s, IF s.square \in s.body THEN "setAttribute:attached"
               ELSE "setAttribute:detached")

setSizeAttribute(s, text) ==
  IF s.err # "none" THEN s ELSE [setAttributeStep(s) EXCEPT !.size = text]

setColorAttribute(s, text) ==
  IF s.err # "none" THEN s ELSE [setAttributeStep(s) EXCEPT !.color = text]

\* document.body.appendChild(square)
appendSquare(s) ==
  IF s.err # "none" THEN s
  ELSE [Step(s, "appendChild") EXCEPT !.body = @ \cup {s.square}]

\* document.body.removeChild(square): NotFoundError for a node that is no
\* child of the body
removeSquare(s) ==
  IF s.err # "none" THEN s
  ELSE IF s.square \notin s.body
       THEN Throw(Step(s, "removeChild:detached"), "NotFoundError")
  ELSE [Step(s, "removeChild:attached") EXCEPT !.body = @ \ {s.square}]

\* the three assignments to the disabled properties at the end of a handler
setDisabled(s, a, u, r) ==
  IF s.err # "none" THEN s
  ELSE [s EXCEPT !.addDisabled = a, !.updateDisabled = u,
                 !.removeDisabled = r]

\* add.onclick
addOnclick(s) ==
  LET s1 == [s EXCEPT !.created = @ + 1, !.square = s.created + 2,
                      !.size = <<>>, !.color = <<>>]
      s2 == setSizeAttribute(s1, <<"1", "0", "0">>)
      s3 == setColorAttribute(s2, Red)
  IN  setDisabled(appendSquare(s3), TRUE, FALSE, FALSE)

\* update.onclick
updateOnclick(s, size, r, g, b) ==
  setColorAttribute(setSizeAttribute(s, NatToString(size)),
                    RgbString(r, g, b))

\* remove.onclick leaving the add button disabled
removeOnclick_AddStaysDisabled(s) ==
  setDisabled(removeSquare(s), TRUE, TRUE, TRUE)

\* remove.onclick leaving the update button enabled
removeOnclick_UpdateStaysEnabled(s) ==
  setDisabled(removeSquare(s), FALSE, FALSE, TRUE)

\* remove.onclick
removeOnclick(s) ==
  setDisabled(removeSquare(s), FALSE, TRUE, TRUE)

InitDemo ==
  /\ version = "demo"
  /\ templatePresent = TRUE
  /\ templateIds = {"square"}
  /\ el = DemoPage
  /\ connected = TRUE
  /\ op = NoOp
  /\ hist = <<>>

\* a click on the add button; a disabled button fires no click event
ClickAdd ==
  /\ ~el.addDisabled
  /\ el.created < MaxSquares
  /\ el' = addOnclick(Begin(el))
  /\ connected' = (el'.square \in el'.body)
  /\ Record(Op("add", "", NaN))
  /\ UNCHANGED <<version, templatePresent, templateIds>>

ClickUpdate ==
  /\ ~el.updateDisabled
  /\ \E size \in RandomSizes, r \in RandomChannels, g \in RandomChannels,
        b \in RandomChannels :
       /\ el' = updateOnclick(Begin(el), size, r, g, b)
       /\ Record(Op("update", "", Num(size)))
  /\ UNCHANGED <<version, templatePresent, templateIds, connected>>

ClickRemove ==
  /\ ~el.removeDisabled
  /\ el' = removeOnclick(Begin(el))
  /\ connected' = (el'.square \in el'.body)
  /\ Record(Op("remove", "", NaN))
  /\ UNCHANGED <<version, templatePresent, templateIds>>

NextDemo ==
  \/ ClickAdd
  \/ ClickUpdate
  \/ ClickRemove

SpecDemo == InitDemo /\ [][NextDemo]_vars

\* ------------------------------------------------------------- properties
InLog(s, name) == \E i \in DOMAIN s.log : s.log[i] = name
CountInLog(s, name) == Cardinality({i \in DOMAIN s.log : s.log[i] = name})

\* the entry point that ran last handed val to the value setter
IsSetterWrite(o) ==
  \/ o.kind = "write"
  \/ o.kind = "attribute" /\ o.name = "value"

\* what an outside observer can tell of the element
Observable(s) ==
  [value |-> s.value, shadowRoot |-> s.shadowRoot, stamped |-> s.stamped,
   ids |-> s.ids, listeners |-> s.listeners, display |-> s.display,
   attachCalls |-> s.attachCalls, firstRenderCalls |-> s.firstRenderCalls]

\* C1: with the mixin (006, 007) attachShadow is executed at most once, and
\* exactly once as soon as render has run; it is never invoked on an element
\* that has a shadow root, so it never throws NotSupportedError.
C1_AttachOnce ==
  version \in {"006", "007"} =>
    /\ el.attachCalls <= 1
    /\ el.renderCalls >= 1 => el.attachCalls = 1
    /\ el.err # "NotSupportedError"
    /\ el.shadowRoot # 0 <=> el.attachCalls = 1

C1_Witness ==
  /\ version = "006"
  /\ el.renderCalls >= 3
  /\ el.attachCalls = 1
  /\ op.kind = "connected"

\* C2: the one-time wiring runs exactly once in the life of the element,
\* however often render runs afterwards; each of the three elements has
\* exactly one listener.
C2_SingleWiring ==
  /\ el.firstRenderCalls = IF el.renderCalls >= 1 THEN 1 ELSE 0
  /\ \A e \in ElementIds : el.listeners[e] = el.firstRenderCalls

C2_Witness ==
  /\ version = "006"
  /\ el.renderCalls >= 3
  /\ el.firstRenderCalls = 1
  /\ op.kind = "up"

\* C3: a setter write (directly or through attributeChangedCallback) of the
\* value the element holds changes nothing and does not invoke render, for
\* every value the state can hold.
C3_EqualWriteNoOp ==
  [][(IsSetterWrite(op') /\ op'.val = el.value) =>
       /\ el'.renderCalls = el.renderCalls
       /\ el'.projections = el.projections
       /\ Observable(el') = Observable(el)]_vars

\* C4: the projection statement of render never executes while the shadow
\* root is absent, whichever entry point runs first.
C4_ProjectionHasRoot ==
  /\ ~InLog(el, "project:noRoot")
  /\ InLog(el, "project") => el.shadowRoot # 0
  /\ InLog(el, "render") => InLog(el, "project")

C4_Witness ==
  /\ Len(hist) = 1
  /\ hist[1].kind = "attribute"
  /\ InLog(el, "attachShadow")
  /\ InLog(el, "project")

\* C5: a setter write of a value that differs from the current one stores
\* the value, then invokes render exactly once, and value reads as the
\* written value afterwards; value changes in no other way.
C5_WriteStoresThenRenders ==
  [][/\ (IsSetterWrite(op') /\ ~StrictEquals(op'.val, el.value)) =>
          /\ el'.value = op'.val
          /\ getValue(el') = op'.val
          /\ el'.renderCalls = el.renderCalls + 1
          /\ Len(el'.log) >= 2
          /\ el'.log[1] = "store"
          /\ el'.log[2] = "render"
          /\ CountInLog(el', "render") = 1
     /\ (IsSetterWrite(op') /\ StrictEquals(op'.val, el.value)) =>
          el'.value = el.value
     /\ el'.value # el.value => InLog(el', "store")]_vars

C5_Witness ==
  /\ op.kind = "write"
  /\ op.val = Num(7)
  /\ el.value = Num(7)
  /\ el.renderCalls >= 2
  /\ el.log[1] = "store"

\* C6: attributeChangedCallback for 'value' with a raw value that is not
\* numeric leaves value as it was; before any attachment it causes no
\* projection and creates no shadow root.
C6_MalformedIgnored ==
  [][(op'.kind = "attribute" /\ op'.name = "value" /\ op'.val.t = "nan") =>
       /\ el'.value = el.value
       /\ el.shadowRoot = 0 =>
            (el'.shadowRoot = 0 /\ el'.projections = el.projections)]_vars

\* C7: on a fresh element attributeChangedCallback('value', _, "7") sets
\* value to 7, creates the shadow root, wires the handlers and displays 7;
\* a connectedCallback after it creates no root, wires nothing, and leaves
\* value and display at 7.
AfterSeven ==
  [value |-> Num(7), shadowRoot |-> 1, stamped |-> TRUE,
   ids |-> ElementIds, listeners |-> [e \in ElementIds |-> 1], display |-> <<"7">>,
   attachCalls |-> 1, firstRenderCalls |-> 1]

C7_AttributeBeforeConnect ==
  /\ hist = <<Op("attribute", "value", Num(7))>> =>
       /\ Observable(el) = AfterSeven
       /\ InLog(el, "attachShadow") /\ InLog(el, "firstRender")
  /\ hist = <<Op("attribute", "value", Num(7)), Op("connected", "", NaN)>> =>
       /\ Observable(el) = AfterSeven
       /\ ~InLog(el, "attachShadow") /\ ~InLog(el, "firstRender")
       /\ InLog(el, "project")

C7_Witness ==
  /\ hist = <<Op("attribute", "value", Num(7)), Op("connected", "", NaN)>>
  /\ el.display = <<"7">>
  /\ el.renderCalls = 2

\* C8: connectedCallback alone, and attributeChangedCallback('value', null,
\* "0") followed by connectedCallback, end in the same observable state:
\* value 0, one shadow root, handlers wired once, display 0.
AfterZero ==
  [value |-> Num(0), shadowRoot |-> 1, stamped |-> TRUE,
   ids |-> ElementIds, listeners |-> [e \in ElementIds |-> 1], display |-> <<"0">>,
   attachCalls |-> 1, firstRenderCalls |-> 1]

C8_ConvergentEntryPoints ==
  /\ hist = <<Op("connected", "", NaN)>> => Observable(el) = AfterZero
  /\ hist = <<Op("attribute", "value", Num(0)), Op("connected", "", NaN)>> =>
       Observable(el) = AfterZero

C8_Witness ==
  /\ hist = <<Op("attribute", "value", Num(0)), Op("connected", "", NaN)>>
  /\ el.display = <<"0">>
  /\ el.renderCalls = 1

\* C9: once the element was attached, every press of the up button raises
\* value by exactly 1 and every press of the down button lowers it by
\* exactly 1; the display shows the new value and one shadow root exists.
C9_PressChangesByOne ==
  [][(op'.kind \in {"up", "down"} /\ connected) =>
       /\ el.value.t = "num" /\ el'.value.t = "num"
       /\ el'.value.n = el.value.n + (IF op'.kind = "up" THEN 1 ELSE 0 - 1)
       /\ el'.display = JsToString(el'.value)
       /\ el'.attachCalls = 1]_vars

\* C10: after every entry point, when the shadow root exists the content
\* of the input element is the string of value.
C10_DisplaySync ==
  el.shadowRoot # 0 => el.display = JsToString(el.value)

\* C11: renderHelper returns true exactly when the host has no shadow root,
\* and then attaches one and stamps the template content into it; with a
\* shadow root it changes nothing and returns false.  Over the life of the
\* element it returns true on the first call only.
HelperResult ==
  IF version = "006" THEN renderHelper006(Begin(el), Template)
  ELSE renderHelper007(Begin(el), Template)

C11_HelperFirstTimeOnly ==
  version \in {"006", "007"} =>
    /\ HelperResult.firstRender = (el.shadowRoot = 0)
    /\ el.shadowRoot = 0 =>
         /\ HelperResult.st.shadowRoot # 0
         /\ HelperResult.st.stamped
         /\ HelperResult.st.ids = templateIds
         /\ HelperResult.st.attachCalls = el.attachCalls + 1
    /\ el.shadowRoot # 0 => HelperResult.st = Step(Begin(el), "renderHelper")
    /\ InLog(el, "renderHelper") =>
         (InLog(el, "attachShadow") <=> InLog(el, "firstRender"))
    /\ el.firstRenderCalls = IF el.renderCalls >= 1 THEN 1 ELSE 0

C11_Witness ==
  /\ version = "006"
  /\ el.renderCalls >= 2
  /\ InLog(el, "renderHelper")
  /\ ~InLog(el, "attachShadow")
  /\ op.kind = "write"

\* C12: the life of an element is Unattached -> FirstRefresh -> Steady.
\* The first render, from whichever entry point, is the only one that
\* creates the shadow tree and wires; the element is Steady when that
\* render returns, never leaves Steady, and a render in Steady only projects.
Phase(s) ==
  CASE s.shadowRoot = 0 /\ s.renderCalls = 0 /\ s.firstRenderCalls = 0
         /\ (\A e \in ElementIds : s.listeners[e] = 0) -> "Unattached"
    [] s.shadowRoot # 0 /\ s.stamped /\ s.firstRenderCalls = 1
         /\ (\A e \in ElementIds : s.listeners[e] = 1) -> "Steady"
    [] OTHER -> "Broken"

SteadySteps == {"store", "render", "renderHelper", "project", "inputListener"}

C12_Lifecycle ==
  [][/\ Phase(el') \in {"Unattached", "Steady"}
     /\ Phase(el) = "Steady" =>
          /\ Phase(el') = "Steady"
          /\ \A i \in DOMAIN el'.log : el'.log[i] \in SteadySteps
          /\ CountInLog(el', "project") = CountInLog(el', "render")
     /\ (Phase(el) = "Unattached" /\ InLog(el', "render")) =>
          /\ Phase(el') = "Steady"
          /\ CountInLog(el', "attachShadow") = 1
          /\ CountInLog(el', "appendChild") = 1
          /\ CountInLog(el', "firstRender") = 1
          /\ CountInLog(el', "project") = 1
     /\ (Phase(el) = "Unattached" /\ ~InLog(el', "render")) =>
          Phase(el') = "Unattached"]_vars

C12_Witness ==
  /\ Phase(el) = "Steady"
  /\ op.kind = "down"
  /\ el.renderCalls >= 3
  /\ el.log = <<"store", "render", "renderHelper", "project">>

\* C13: when the stamped template has no element with id 'input', render
\* ends in the distinct condition template-contract-violation, not in a
\* generic null-reference failure.
C13_TemplateContractViolation ==
  (el.stamped /\ "input" \notin el.ids /\ InLog(el, "render")) =>
    el.err = "TemplateContractViolation"

\* C14: attributeChangedCallback with a name other than 'value' leaves
\* value, shadow root, wiring and display unchanged and does not invoke
\* render, before and after the first render.
C14_OtherAttributeIgnored ==
  [][(op'.kind = "attribute" /\ op'.name # "value") =>
       /\ Observable(el') = Observable(el)
       /\ el'.renderCalls = el.renderCalls
       /\ el'.projections = el.projections
       /\ el'.log = <<>>
       /\ el'.err = "none"]_vars

C14_Witness ==
  /\ op.kind = "attribute"
  /\ op.name = "min"
  /\ op.val = Num(7)
  /\ el.value = Num(0)
  /\ el.shadowRoot # 0

\* C15: in 001-a, 002 and 003 render tests this.shadowRoot, so an
\* attributeChangedCallback for 'value' before connectedCallback updates the
\* state without failing and without touching a display; the render at the
\* end of connectedCallback brings the display up to date.
C15_GuardedRender ==
  /\ (op.kind = "attribute" /\ el.shadowRoot = 0) =>
       (el.err = "none" /\ el.display = <<>>)
  /\ (op.kind = "connected" /\ el.attachCalls = 1) =>
       (el.err = "none" /\ el.display = JsToString(el.value))

\* C16: in every reachable state value is an integer, never NaN and never
\* a string.
C16_ValueIsInteger == el.value.t = "num"

\* C17: the shadow root is absent from construction until the first render
\* and, once present, stays the same root in every later state.
C17_RootStable ==
  [][/\ el'.renderCalls = 0 => el'.shadowRoot = 0
     /\ el.shadowRoot # 0 => el'.shadowRoot = el.shadowRoot
     /\ (el.shadowRoot = 0 /\ el'.shadowRoot # 0) =>
          (el.renderCalls = 0 /\ InLog(el', "render"))]_vars

C17_Witness ==
  /\ el.shadowRoot = 1
  /\ op.kind = "disconnected"
  /\ el.renderCalls >= 2

\* C18: renderHelper is purely structural: it reads the shadow root and the
\* template and writes the shadow root only; it neither reads nor changes
\* value, attaches no listener and does no projection, whatever it returns.
HelperOf(s) ==
  CASE version = "005" -> renderHelper005(s, Template)
    [] version = "006" -> renderHelper006(s, Template)
    [] OTHER -> renderHelper007(s, Template)

C18_HelperStructural ==
  version \in {"005", "006", "007"} =>
    /\ [HelperOf(Begin(el)).st EXCEPT
          !.shadowRoot = el.shadowRoot, !.stamped = el.stamped,
          !.ids = el.ids, !.attachCalls = el.attachCalls, !.log = <<>>]
         = Begin(el)
    /\ ~InLog(HelperOf(Begin(el)).st, "project")
    /\ \A v \in WrittenValues \cup {NaN} :
         /\ HelperOf([Begin(el) EXCEPT !.value = v]).st
              = [HelperOf(Begin(el)).st EXCEPT !.value = v]
         /\ HelperOf([Begin(el) EXCEPT !.value = v]).firstRender
              = HelperOf(Begin(el)).firstRender
    /\ InLog(el, "attachShadow") => InLog(el, "firstRender")

C18_Witness ==
  /\ version = "007"
  /\ InLog(el, "renderHelper")
  /\ InLog(el, "attachShadow")
  /\ el.value = Num(7)

\* C19: render is never re-entered and no listener runs during a render:
\* in the steps of an entry point every render reaches its projection before
\* the next store, render or listener step, and the render caused by a
\* listener's write has completed when the entry point ends.
RECURSIVE WellNested(_, _, _)
WellNested(log, i, open) ==
  IF i > Len(log) THEN ~open
  ELSE CASE log[i] = "render" -> ~open /\ WellNested(log, i + 1, TRUE)
         [] log[i] = "project" -> open /\ WellNested(log, i + 1, FALSE)
         [] log[i] \in {"store", "inputListener"} ->
              ~open /\ WellNested(log, i + 1, open)
         [] OTHER -> open /\ WellNested(log, i + 1, open)

C19_NoReentrantRender ==
  /\ WellNested(el.log, 1, FALSE)
  /\ InLog(el, "inputListener") => op.kind = "text"
  /\ (op.kind \in {"up", "down"} /\ el.log # <<>>) =>
       /\ el.log[Len(el.log)] = "project"
       /\ el.display = JsToString(el.value)

C19_Witness ==
  /\ op.kind = "up"
  /\ el.log = <<"store", "render", "renderHelper", "project">>
  /\ el.value = Num(1)

\* C20: reading value has no side effect in any state of the life cycle: it
\* invokes no render, creates no shadow root and changes nothing; a read
\* before attachment leaves the element Unattached.
C20_ReadHasNoEffect ==
  [][op'.kind = "read" =>
       /\ el' = [el EXCEPT !.log = <<>>, !.err = "none"]
       /\ op'.val = el.value
       /\ Phase(el') = Phase(el)]_vars

C20_Witness ==
  /\ op.kind = "read"
  /\ Phase(el) = "Unattached"
  /\ Len(hist) = 2
  /\ hist[1].kind = "attribute"

\* C21: within the first render the steps come in the order materialize,
\* wire, project: no listener is added before the root holds the template
\* copy, and no projection happens before all three listeners are added.
IndexOf(log, name) ==
  IF \E i \in DOMAIN log : log[i] = name
  THEN CHOOSE i \in DOMAIN log :
         log[i] = name /\ \A j \in 1..(i - 1) : log[j] # name
  ELSE 0

C21_FirstRenderOrder ==
  InLog(el, "attachShadow") =>
    /\ \A i \in DOMAIN el.log :
         (\E e \in ElementIds : el.log[i] = ListenStep[e]) =>
           /\ IndexOf(el.log, "attachShadow") \in 1..(i - 1)
           /\ IndexOf(el.log, "appendChild") \in 1..(i - 1)
           /\ IndexOf(el.log, "attachShadow") < IndexOf(el.log, "appendChild")
    /\ \A i \in DOMAIN el.log :
         el.log[i] = "project" =>
           \A e \in ElementIds : IndexOf(el.log, ListenStep[e]) \in 1..(i - 1)
    /\ el.err = "none" =>
         /\ el.log[Len(el.log)] = "project"
         /\ CountInLog(el, "project") = 1

C21_Witness ==
  /\ InLog(el, "attachShadow")
  /\ op.kind = "attribute"
  /\ el.value = Num(7)
  /\ el.display = <<"7">>
  /\ \A e \in ElementIds : el.listeners[e] = 1

\* C22: a text entry on the input element of an attached element sets value
\* to the content of the input element: the listener ends without an
\* exception and value and display agree afterwards.
C22_TextEntrySetsValue ==
  (op.kind = "text" /\ el.listeners["input"] >= 1) =>
    /\ el.err = "none"
    /\ InLog(el, "store")
    /\ JsToString(el.value) = el.display

\* C23: the versions 004, 005, 006 and 007 are observationally equivalent:
\* from every reachable state, connectedCallback, attributeChangedCallback,
\* a setter write and a button press give, in each of the four versions,
\* the same value, display, shadow root and listener counts.  As every
\* entry point starts from the same constructor state and discards the
\* step log, equal results of each step give equal results of each
\* sequence of steps.
SameOutcome(a, b) ==
  /\ Observable(a) = Observable(b)
  /\ a.err = b.err
  /\ a.renderCalls = b.renderCalls
  /\ a.projections = b.projections

C23_VersionsEquivalent ==
  \A v \in Versions :
    /\ SameOutcome(connectedCallbackBody(v, Begin(el), Template),
                   connectedCallbackBody(version, Begin(el), Template))
    /\ \A name \in AttributeNames, raw \in RawValues :
         SameOutcome(
           attributeChangedCallbackBody(Begin(el), v, Template, name, raw),
           attributeChangedCallbackBody(Begin(el), version, Template,
                                        name, raw))
    /\ \A w \in WrittenValues :
         SameOutcome(setValue(v, Begin(el), Template, w),
                     setValue(version, Begin(el), Template, w))
    /\ \A id \in {"upButton", "downButton"} :
         SameOutcome(
           Dispatch(el.listeners[id], id, Begin(el), v, Template),
           Dispatch(el.listeners[id], id, Begin(el), version, Template))

C23_Witness ==
  /\ version = "007"
  /\ Len(hist) = 2
  /\ hist[1].kind = "attribute"
  /\ hist[2].kind = "up"
  /\ el.display = <<"8">>
  /\ el.attachCalls = 1

\* C24: in 001-a, 002 and 003 the shadow root is attached and the listeners
\* are added at most once per element, also when connectedCallback fires
\* again after the element was removed from the page and added back: the
\* second connectedCallback invokes attachShadow no second time and ends
\* without an exception.
C24_LegacyAttachOnce ==
  [][(op.kind = "disconnected" /\ op'.kind = "connected"
        /\ el.attachCalls = 1 /\ el.shadowRoot # 0) =>
       /\ el'.attachCalls = 1
       /\ el'.err = "none"
       /\ \A e \in ElementIds : el'.listeners[e] = 1]_vars

\* C25: for Square, every attributeChangedCallback on an observed attribute
\* assigns the raw new value to the matching property and renders exactly
\* once, render always finds the shadow root, and after each callback the
\* rendered width, height and colour are those of the squareSize and
\* squareColor properties (100 and '#0000ff' when no attribute was given).
C25_SquareRendersProperties ==
  /\ el.shadowRoot # 0 /\ el.err = "none"
  /\ op.kind = "attribute" =>
       /\ el.log = <<"store", "render">>
       /\ op.name = SquareSizeProperty => el.squareSize = op.val
       /\ op.name = SquareColorProperty => el.squareColor = op.val
  /\ Rendered(el).width = TemplateLiteral(el.squareSize) \o <<"p", "x">>
  /\ Rendered(el).height = TemplateLiteral(el.squareSize) \o <<"p", "x">>
  /\ Rendered(el).backgroundColor = TemplateLiteral(el.squareColor)

\* C26: attributeToPropertyName replaces every '-' that is followed by a
\* lower-case letter by that letter in upper case and keeps every other
\* character; 'square-size' gives 'squareSize', 'square-color' gives
\* 'squareColor', and a name without a hyphen is returned unchanged.
\* the positions of the hyphens that are followed by a lower-case letter
HyphenMatches(name) ==
  {i \in 1..(Len(name) - 1) : name[i] = "-" /\ IsLower(name[i + 1])}

C26_KebabToCamel ==
  el.returned =>
    LET name == el.attributeName
        out == el.propertyName
        M == HyphenMatches(name)
    IN  /\ Len(out) = Len(name) - Cardinality(M)
        /\ \A j \in (1..Len(name)) \ M :
             out[j - Cardinality({i \in M : i < j})] =
               IF (j - 1) \in M THEN toUpperCase(name[j]) ELSE name[j]
        /\ (\A j \in 1..Len(name) : name[j] # "-") => out = name
        /\ name = SquareSizeAttribute => out = SquareSizeProperty
        /\ name = SquareColorAttribute => out = SquareColorProperty

C26_Witness ==
  /\ el.returned
  /\ el.attributeName = <<"-", "-", "a", "-">>
  /\ el.propertyName = <<"-", "A", "-">>

\* C27: on an attached element that holds an integer, a press of up
\* followed by a press of down, and a press of down followed by a press of
\* up, give back the value and the display of before and leave shadow root
\* and listeners as they were; the first press moves the value by one at
\* every integer, negative ones included.
PressOf(id, s) ==
  Dispatch(s.listeners[id], id, Begin(s), version, Template)

C27_UpDownInverse ==
  (connected /\ el.shadowRoot # 0 /\ el.value.t = "num") =>
    /\ PressOf("upButton", el).value = Num(el.value.n + 1)
    /\ PressOf("downButton", el).value = Num(el.value.n - 1)
    /\ Observable(PressOf("downButton", PressOf("upButton", el)))
         = Observable(el)
    /\ Observable(PressOf("upButton", PressOf("downButton", el)))
         = Observable(el)

\* C28: in the demo page, after initialisation and after every click,
\* add.disabled = ~update.disabled = ~remove.disabled, and add is disabled
\* exactly when the current square is a child of the body.
C28_ButtonFlags ==
  /\ el.addDisabled = ~el.updateDisabled
  /\ el.addDisabled = ~el.removeDisabled
  /\ el.addDisabled <=> (el.square \in el.body)
  /\ el.err = "none"

C28_Witness ==
  /\ op.kind = "remove"
  /\ ~el.addDisabled
  /\ el.created = 1
  /\ el.square = 2
  /\ el.body = {}

\* C29 as stated: removeChild and setAttribute are applied only to a square
\* that is a child of the body at that moment, and at most one square is
\* attached at any time.
C29_OnlyAttachedSquare ==
  /\ ~InLog(el, "removeChild:detached")
  /\ ~InLog(el, "setAttribute:detached")
  /\ Cardinality(el.body) <= 1

\* C29 amended: removeChild and the setAttribute calls of update.onclick are
\* applied only to a square that is a child of the body; add.onclick sets
\* the two attributes of the square it has just created before it appends
\* it; at most one square is attached at any time, and add runs only while
\* none is.
C29_Amended ==
  /\ ~InLog(el, "removeChild:detached")
  /\ InLog(el, "setAttribute:detached") =>
       /\ op.kind = "add"
       /\ el.log = <<"setAttribute:detached", "setAttribute:detached",
                     "appendChild">>
  /\ op.kind = "update" =>
       el.log = <<"setAttribute:attached", "setAttribute:attached">>
  /\ Cardinality(el.body) <= 1
  /\ op.kind = "add" => el.body = {el.square}
  /\ el.err = "none"

C29_Witness ==
  /\ op.kind = "update"
  /\ el.square = 2
  /\ el.body = {2}
  /\ el.size = <<"2", "0", "0">>

\* C30: materialization is all or nothing: after every entry point of a
\* version with the mixin, whether renderHelper returned or failed, a
\* shadow root that is present holds a copy of the template content; a
\* template that is unavailable at the first call leaves no empty root.
C30_MaterializationAllOrNothing ==
  (version \in {"006", "007"} /\ el.shadowRoot # 0) => el.stamped

\* C31: wiring tracks materialization: after every entry point of 005 and
\* 006, returned or failed, the shadow root is present exactly when the
\* input, up and down listeners are all attached; a first render that fails
\* inside componentFirstRender leaves no root without its listeners.
C31_WiringTracksMaterialization ==
  version \in {"005", "006"} =>
    (el.shadowRoot # 0 <=> \A e \in ElementIds : el.listeners[e] = 1)

====
